---- MODULE Spec2Model ----
(***************************************************************************)
(* Model of the rule-based answer evaluator (src/src/evaluator.py).        *)
(*                                                                         *)
(* Answers are TLA+ strings.  Scores are exact fixed-point numbers: the    *)
(* unrounded sub-scores and totals of the scorers are integers in units of *)
(* 1/12000 (so that k/3, k/4, k/2 and the weighted sums are exact), and    *)
(* the values a scorer returns, which the code rounds with round(x, 3),    *)
(* are integers in thousandths (1000 stands for 1.0).                      *)
(***************************************************************************)
EXTENDS Integers, Sequences, FiniteSets, TLC

\* an evaluation: the answer, the call Evaluator.evaluate and what it gave
VARIABLES answer, phrases, question_type, outcome, result, baseline

\* a call chunk_text(text, chunk_size, overlap) of build_vector_db.py
VARIABLES text, chunk_size, overlap, words, chunk_i, chunks, chunk_pc

\* a run of run_experiment.py started from main
VARIABLES exp_pc, questions_dict, model_i, qtype_i, question_i, type_results,
          model_results, all_results, instruction, queried, failures

evalVars == <<answer, phrases, question_type, outcome, result, baseline>>

chunkVars == <<text, chunk_size, overlap, words, chunk_i, chunks, chunk_pc>>

expVars == <<exp_pc, questions_dict, model_i, qtype_i, question_i, type_results,
             model_results, all_results, instruction, queried, failures>>

vars == <<evalVars, chunkVars, expVars>>

(***************************************************************************)
(* Characters and the str methods the scorers use.                         *)
(***************************************************************************)
Digits == {"0", "1", "2", "3", "4", "5", "6", "7", "8", "9"}

UpperCase == {"A", "B", "C", "D", "E", "F", "G", "H", "I", "J", "K", "L", "M",
              "N", "O", "P", "Q", "R", "S", "T", "U", "V", "W", "X", "Y", "Z"}

LowerCase == {"a", "b", "c", "d", "e", "f", "g", "h", "i", "j", "k", "l", "m",
              "n", "o", "p", "q", "r", "s", "t", "u", "v", "w", "x", "y", "z"}

\* the characters \s matches, within the modelled (ASCII) alphabet
Whitespace == {" ", "\n", "\t"}

\* the class [-•*] of the structure pattern, within the modelled alphabet
BulletChars == {"-", "*"}

LowerOf ==
    [c \in UpperCase |->
        CASE c = "A" -> "a" [] c = "B" -> "b" [] c = "C" -> "c" [] c = "D" -> "d"
          [] c = "E" -> "e" [] c = "F" -> "f" [] c = "G" -> "g" [] c = "H" -> "h"
          [] c = "I" -> "i" [] c = "J" -> "j" [] c = "K" -> "k" [] c = "L" -> "l"
          [] c = "M" -> "m" [] c = "N" -> "n" [] c = "O" -> "o" [] c = "P" -> "p"
          [] c = "Q" -> "q" [] c = "R" -> "r" [] c = "S" -> "s" [] c = "T" -> "t"
          [] c = "U" -> "u" [] c = "V" -> "v" [] c = "W" -> "w" [] c = "X" -> "x"
          [] c = "Y" -> "y" [] c = "Z" -> "z"]

\* s[i-1] in Python terms: the i-th character of s, "" outside the string
CharAt(s, i) == IF i >= 1 /\ i <= Len(s) THEN SubSeq(s, i, i) ELSE ""

\* the characters lo..hi of s, lower-cased (split in halves to keep the
\* evaluation shallow)
RECURSIVE LowerRange(_, _, _)
LowerRange(s, lo, hi) ==
    IF lo > hi THEN ""
    ELSE IF lo = hi
    THEN LET c == CharAt(s, lo) IN IF c \in UpperCase THEN LowerOf[c] ELSE c
    ELSE LET mid == (lo + hi) \div 2
         IN LowerRange(s, lo, mid) \o LowerRange(s, mid + 1, hi)

\* str.lower()
lower(s) == LowerRange(s, 1, Len(s))

\* the end of the maximal run of class characters that starts at i: the
\* last index j >= i - 1 such that s[i..j] lies in class
RunEnd(s, i, class) ==
    CHOOSE j \in (i - 1)..Len(s) :
        /\ CharAt(s, j + 1) \notin class
        /\ \A k \in i..j : CharAt(s, k) \in class

\* the start of the maximal run of class characters that ends at i: the
\* first index j <= i + 1 such that s[j..i] lies in class
RunStart(s, i, class) ==
    CHOOSE j \in 1..(i + 1) :
        /\ CharAt(s, j - 1) \notin class
        /\ \A k \in j..i : CharAt(s, k) \in class

\* str.strip(): leading and trailing whitespace removed
strip(s) ==
    LET first == RunEnd(s, 1, Whitespace) + 1
        last  == RunStart(s, Len(s), Whitespace) - 1
    IN IF first > last THEN "" ELSE SubSeq(s, first, last)

\* the literal word w occurs in s at position i
LitAt(s, i, w) ==
    i >= 1 /\ i + Len(w) - 1 <= Len(s) /\ SubSeq(s, i, i + Len(w) - 1) = w

\* Python's `w in s` for strings
Contains(s, w) == \E i \in 1..(Len(s) - Len(w) + 1) : LitAt(s, i, w)

\* sum(1 for w in words if w in s): the number of listed words present
CountPresent(listed, s) == Cardinality({k \in 1..Len(listed) : Contains(s, listed[k])})

(***************************************************************************)
(* Regular expressions.  A pattern is modelled by its match-length         *)
(* operator: the length of the match the engine finds when it tries the    *)
(* pattern at position i of s (greedy, alternatives in order), or 0 when   *)
(* the pattern does not match there.  No pattern of the evaluator matches  *)
(* the empty string.                                                       *)
(***************************************************************************)
\* the first alternative of a list of literal words that occurs at i
RECURSIVE WordsAt(_, _, _, _)
WordsAt(s, i, listed, k) ==
    IF k > Len(listed) THEN 0
    ELSE IF LitAt(s, i, listed[k]) THEN Len(listed[k])
    ELSE WordsAt(s, i, listed, k + 1)

\* \d+
DigitsAt(s, i) == RunEnd(s, i, Digits) - i + 1

\* \d+\.   (the digit run is maximal: the character after it is not a digit)
NumberedAt(s, i) ==
    LET j == RunEnd(s, i, Digits)
    IN IF j >= i /\ CharAt(s, j + 1) = "." THEN j + 2 - i ELSE 0

\* \d+\)
ParenNumberAt(s, i) ==
    LET j == RunEnd(s, i, Digits)
    IN IF j >= i /\ CharAt(s, j + 1) = ")" THEN j + 2 - i ELSE 0

\* <word>\d+, for a literal word
WordNumberAt(s, i, w) ==
    IF LitAt(s, i, w) /\ CharAt(s, i + Len(w)) \in Digits
    THEN RunEnd(s, i + Len(w), Digits) - i + 1
    ELSE 0

\* step \d+
StepNumberAt(s, i) == WordNumberAt(s, i, "step ")

\* first|second|third|then|next|finally
SequenceWordAt(s, i) ==
    WordsAt(s, i, <<"first", "second", "third", "then", "next", "finally">>, 1)

\* http|www\.
UrlMarkerAt(s, i) == WordsAt(s, i, <<"http", "www.">>, 1)

\* [A-Z][a-z]+\s+[A-Z][a-z]+   (each run is maximal: the character that must
\* follow it is outside the run's class)
SpecificNameAt(s, i) ==
    IF CharAt(s, i) \in UpperCase /\ CharAt(s, i + 1) \in LowerCase
    THEN LET j == RunEnd(s, i + 1, LowerCase)
             k == RunEnd(s, j + 1, Whitespace)
         IN IF k > j /\ CharAt(s, k + 1) \in UpperCase /\ CharAt(s, k + 2) \in LowerCase
            THEN RunEnd(s, k + 2, LowerCase) - i + 1
            ELSE 0
    ELSE 0

\* \n\s*[-•*]|\d+\.
StructureAt(s, i) ==
    IF CharAt(s, i) = "\n" /\ CharAt(s, RunEnd(s, i + 1, Whitespace) + 1) \in BulletChars
    THEN RunEnd(s, i + 1, Whitespace) + 2 - i
    ELSE NumberedAt(s, i)

\* recommend|suggest|should|could try
RecommendAt(s, i) == WordsAt(s, i, <<"recommend", "suggest", "should", "could try">>, 1)

\* \d+\)|option \d+|alternatively
OptionAt(s, i) ==
    IF ParenNumberAt(s, i) > 0 THEN ParenNumberAt(s, i)
    ELSE IF WordNumberAt(s, i, "option ") > 0 THEN WordNumberAt(s, i, "option ")
    ELSE WordsAt(s, i, <<"alternatively">>, 1)

\* the pattern, named by its source text, tried at position i of s (the
\* structure pattern is named without its bullet character, which lies
\* outside the modelled alphabet)
MatchAt(pattern, s, i) ==
    CASE pattern = "\\d+" -> DigitsAt(s, i)
      [] pattern = "http|www\\." -> UrlMarkerAt(s, i)
      [] pattern = "[A-Z][a-z]+\\s+[A-Z][a-z]+" -> SpecificNameAt(s, i)
      [] pattern = "\\d+\\." -> NumberedAt(s, i)
      [] pattern = "step \\d+" -> StepNumberAt(s, i)
      [] pattern = "first|second|third|then|next|finally" -> SequenceWordAt(s, i)
      [] pattern = "\\n\\s*[-*]|\\d+\\." -> StructureAt(s, i)
      [] pattern = "recommend|suggest|should|could try" -> RecommendAt(s, i)
      [] pattern = "\\d+\\)|option \\d+|alternatively" -> OptionAt(s, i)

Min(S) == CHOOSE x \in S : \A y \in S : x <= y

\* the positions at which the pattern matches
MatchStarts(pattern, s) == {i \in 1..Len(s) : MatchAt(pattern, s, i) > 0}

\* bool(re.search(pattern, s))
re_search(pattern, s) == MatchStarts(pattern, s) # {}

\* the matches findall returns: leftmost first, non-overlapping, the scan
\* resuming right after each match
RECURSIVE ScanFrom(_, _, _, _)
ScanFrom(pattern, s, starts, from) ==
    LET later == {i \in starts : i >= from}
    IN IF later = {} THEN 0
       ELSE LET i == Min(later)
            IN 1 + ScanFrom(pattern, s, starts, i + MatchAt(pattern, s, i))

\* len(re.findall(pattern, s))
re_findall_count(pattern, s) == ScanFrom(pattern, s, MatchStarts(pattern, s), 1)

(***************************************************************************)
(* Fixed-point arithmetic.  Unit stands for 1.0 in the unrounded values.   *)
(***************************************************************************)
Unit == 12 * 1000

\* the decimal literal n/1000 (0.8 is Dec(800))
Dec(n) == n * 12

\* count / target, for the targets 2.0, 3.0 and 4.0 of the scorers
Ratio(count, target) == (count * Unit) \div target

\* a plausible slip: the ceiling left out
Uncapped(x) == x

\* min(x, 1.0)
Cap(x) == IF x < Unit THEN x ELSE Unit

\* w * x for a weight of w/1000
Weighted(w, x) == (w * x) \div 1000

\* round(x, 3): to the nearest thousandth, ties to even
round3(x) ==
    LET q == x \div 12
        r == x % 12
    IN IF r < 6 THEN q
       ELSE IF r > 6 THEN q + 1
       ELSE IF q % 2 = 0 THEN q ELSE q + 1

(***************************************************************************)
(* Evaluator.evaluate_factual                                              *)
(***************************************************************************)
vague_terms == <<"maybe", "might", "possibly", "unclear", "i don't know">>

factual_length_score(length) ==
    IF length <= 150 THEN Dec(1000)
    ELSE IF length <= 300 THEN Dec(800)
    ELSE Dec(500)

has_number(a) == re_search("\\d+", a)

has_url(a_lower) == re_search("http|www\\.", a_lower)

has_specific_name(a) == re_search("[A-Z][a-z]+\\s+[A-Z][a-z]+", a)

\* a plausible slip: the URL signal left out of the sum
specificity_score_without_url(number, url, name) ==
    (IF number THEN Dec(400) ELSE 0) + (IF name THEN Dec(300) ELSE 0)

specificity_score(number, url, name) ==
    (IF number THEN Dec(400) ELSE 0)
    + (IF url THEN Dec(300) ELSE 0)
    + (IF name THEN Dec(300) ELSE 0)

\* a plausible slip: all() for any()
has_vague_all(a_lower) == \A k \in 1..Len(vague_terms) : Contains(a_lower, vague_terms[k])

\* any(term in answer_lower for term in vague_terms)
has_vague(a_lower) == \E k \in 1..Len(vague_terms) : Contains(a_lower, vague_terms[k])

\* a plausible slip: the two branches of the clarity gate exchanged
clarity_score_inverted(vague) == IF vague THEN Dec(1000) ELSE 0

clarity_score(vague) == IF vague THEN 0 ELSE Dec(1000)

\* a plausible slip: weights that sum to 1.1
factual_total_score_overweight(length_score, specificity, clarity) ==
    Weighted(400, length_score) + Weighted(400, specificity) + Weighted(300, clarity)

factual_total_score(length_score, specificity, clarity) ==
    Weighted(300, length_score) + Weighted(400, specificity) + Weighted(300, clarity)

evaluate_factual(a) ==
    LET answer_lower  == strip(lower(a))
        length        == Len(a)
        length_score  == factual_length_score(length)
        number        == has_number(a)
        url           == has_url(answer_lower)
        specific_name == has_specific_name(a)
        specificity   == specificity_score(number, url, specific_name)
        clarity       == clarity_score(has_vague(answer_lower))
        total_score   == factual_total_score(length_score, specificity, clarity)
    IN [category          |-> "factual",
        length_score      |-> round3(length_score),
        specificity_score |-> round3(specificity),
        clarity_score     |-> round3(clarity),
        total_score       |-> round3(total_score),
        answer_length     |-> length,
        has_specific_info |-> number \/ url \/ specific_name]

(***************************************************************************)
(* Evaluator.evaluate_procedural                                           *)
(***************************************************************************)
connectors == <<"first", "then", "next", "after", "finally", "before">>

action_verbs == <<"click", "go", "visit", "submit", "fill", "select", "open", "enter">>

\* a plausible slip: re.search for re.findall, one marker per pattern
step_markers_presence(a_lower) ==
    (IF re_search("\\d+\\.", a_lower) THEN 1 ELSE 0)
    + (IF re_search("step \\d+", a_lower) THEN 1 ELSE 0)
    + (IF re_search("first|second|third|then|next|finally", a_lower) THEN 1 ELSE 0)

\* the sum over step_patterns of len(re.findall(pattern, answer_lower))
step_markers(a_lower) ==
    re_findall_count("\\d+\\.", a_lower)
    + re_findall_count("step \\d+", a_lower)
    + re_findall_count("first|second|third|then|next|finally", a_lower)

step_score(markers) == Cap(Ratio(markers, 3))

logic_score(connector_count) == Cap(Ratio(connector_count, 3))

action_score(action_count) == Cap(Ratio(action_count, 4))

procedural_total_score(step, logic, action) ==
    Weighted(400, step) + Weighted(300, logic) + Weighted(300, action)

evaluate_procedural(a) ==
    LET answer_lower    == lower(a)
        markers         == step_markers(answer_lower)
        step            == step_score(markers)
        connector_count == CountPresent(connectors, answer_lower)
        logic           == logic_score(connector_count)
        action_count    == CountPresent(action_verbs, answer_lower)
        action          == action_score(action_count)
        total_score     == procedural_total_score(step, logic, action)
    IN [category           |-> "procedural",
        step_score         |-> round3(step),
        logic_score        |-> round3(logic),
        action_score       |-> round3(action),
        total_score        |-> round3(total_score),
        step_markers_found |-> markers,
        connectors_found   |-> connector_count,
        actions_found      |-> action_count]

(***************************************************************************)
(* Evaluator.evaluate_comparative                                          *)
(***************************************************************************)
comparison_words == <<"compare", "difference", "similar", "both", "while",
                      "whereas", "however", "in contrast", "on the other hand">>

dimensions == <<"cost", "location", "facility", "time", "quality", "size", "distance">>

comparison_score(comparison_count) == Cap(Ratio(comparison_count, 3))

dimension_score(dimension_count) == Cap(Ratio(dimension_count, 2))

has_structure(a) == re_search("\\n\\s*[-*]|\\d+\\.", a)

\* a plausible slip: a binary gate, as in the recommendation scorer
structure_score_gate(structure) == IF structure THEN Dec(1000) ELSE 0

structure_score(structure) == IF structure THEN Dec(1000) ELSE Dec(500)

\* a plausible slip: the bands of the factual scorer's polarity
comparative_length_score_short_is_best(length) ==
    IF length <= 100 THEN Dec(1000)
    ELSE IF length <= 200 THEN Dec(700)
    ELSE Dec(400)

comparative_length_score(length) ==
    IF length >= 200 THEN Dec(1000)
    ELSE IF length >= 100 THEN Dec(700)
    ELSE Dec(400)

comparative_total_score(comparison, dimension, structure, length_score) ==
    Weighted(300, comparison) + Weighted(300, dimension)
    + Weighted(200, structure) + Weighted(200, length_score)

evaluate_comparative(a) ==
    LET answer_lower     == lower(a)
        comparison_count == CountPresent(comparison_words, answer_lower)
        comparison       == comparison_score(comparison_count)
        dimension_count  == CountPresent(dimensions, answer_lower)
        dimension        == dimension_score(dimension_count)
        structure        == structure_score(has_structure(a))
        length_score     == comparative_length_score(Len(a))
        total_score      == comparative_total_score(comparison, dimension, structure, length_score)
    IN [category               |-> "comparative",
        comparison_score       |-> round3(comparison),
        dimension_score        |-> round3(dimension),
        structure_score        |-> round3(structure),
        length_score           |-> round3(length_score),
        total_score            |-> round3(total_score),
        comparison_words_found |-> comparison_count,
        dimensions_found       |-> dimension_count]

(***************************************************************************)
(* Evaluator.evaluate_recommendation                                       *)
(***************************************************************************)
reasoning_words == <<"because", "since", "as", "due to", "offers", "provides", "has">>

constraint_words == <<"budget", "time", "location", "prefer", "near", "available", "suitable">>

has_recommendation(a_lower) == re_search("recommend|suggest|should|could try", a_lower)

recommendation_score(recommends) == IF recommends THEN Dec(1000) ELSE 0

reasoning_score(reasoning_count) == Cap(Ratio(reasoning_count, 2))

constraint_score(constraint_count) == Cap(Ratio(constraint_count, 2))

option_markers(a_lower) == re_findall_count("\\d+\\)|option \\d+|alternatively", a_lower)

\* a plausible slip: the target of the step score
diversity_score_of_three(markers) == Cap(Ratio(markers, 3))

diversity_score(markers) == Cap(Ratio(markers, 2))

recommendation_total_score(recommendation, reasoning, constraint, diversity) ==
    Weighted(300, recommendation) + Weighted(300, reasoning)
    + Weighted(250, constraint) + Weighted(150, diversity)

evaluate_recommendation(a) ==
    LET answer_lower     == lower(a)
        recommends       == has_recommendation(answer_lower)
        recommendation   == recommendation_score(recommends)
        reasoning_count  == CountPresent(reasoning_words, answer_lower)
        reasoning        == reasoning_score(reasoning_count)
        constraint_count == CountPresent(constraint_words, answer_lower)
        constraint       == constraint_score(constraint_count)
        diversity        == diversity_score(option_markers(answer_lower))
        total_score      == recommendation_total_score(recommendation, reasoning,
                                                       constraint, diversity)
    IN [category             |-> "recommendation",
        recommendation_score |-> round3(recommendation),
        reasoning_score      |-> round3(reasoning),
        constraint_score     |-> round3(constraint),
        diversity_score      |-> round3(diversity),
        total_score          |-> round3(total_score),
        has_recommendation   |-> recommends,
        reasoning_indicators |-> reasoning_count,
        constraint_awareness |-> constraint_count]

(***************************************************************************)
(* Evaluator.evaluate: the dispatcher.  A call either returns the scorer's *)
(* result or raises ValueError.                                            *)
(***************************************************************************)
\* the keys of the evaluators dictionary
evaluators == {"factual", "procedural", "comparative", "recommendation"}

NoResult == [category |-> "none"]

\* no earlier call is remembered
NoBaseline == [answer |-> "", result |-> NoResult]

\* a plausible slip: an unknown type falls back to the factual scorer
evaluate_with_fallback(a, qt) ==
    [outcome |-> "returned",
     result  |-> CASE qt = "procedural" -> evaluate_procedural(a)
                   [] qt = "comparative" -> evaluate_comparative(a)
                   [] qt = "recommendation" -> evaluate_recommendation(a)
                   [] OTHER -> evaluate_factual(a)]

evaluate(a, qt) ==
    IF qt \notin evaluators
    THEN [outcome |-> "ValueError", result |-> NoResult]
    ELSE [outcome |-> "returned",
          result  |-> CASE qt = "factual" -> evaluate_factual(a)
                        [] qt = "procedural" -> evaluate_procedural(a)
                        [] qt = "comparative" -> evaluate_comparative(a)
                        [] qt = "recommendation" -> evaluate_recommendation(a)]

(***************************************************************************)
(* The inputs: answers are written phrase by phrase from a vocabulary that *)
(* holds the answers of the documented examples, phrases that carry each   *)
(* kind of marker, and fillers whose lengths sit on the length bands.      *)
(***************************************************************************)
MaxPhrases == 2

FillLen == 50

RECURSIVE Repeat(_, _)
Repeat(c, n) ==
    IF n = 0 THEN ""
    ELSE LET half == Repeat(c, n \div 2)
         IN IF n % 2 = 0 THEN half \o half ELSE half \o half \o c

StepsAnswer ==
    "Step 1. Go to Central Library. Step 2. Fill the form. Step 3. Submit it."

OptionsAnswer ==
    "Option 1) Hall A offers lower cost and closer distance. Option 2) alternatively Hall B has better facility."

VagueAnswer == "maybe it is unclear"

Vocabulary ==
    {StepsAnswer, OptionsAnswer, VagueAnswer,
     "Call 6516 at Kent Ridge, see WWW.nus.edu.sg ",
     "Possibly ",
     "First click Open, then select and enter; next visit. ",
     "Finally submit it before or after 9. ",
     "Both are similar; however the difference is quality, whereas size and time compare. ",
     "I recommend it since it has budget and is near, suitable and available. ",
     "\n - ",
     "2) ",
     Repeat("x", 2 * FillLen),
     Repeat("x", 3 * FillLen),
     Repeat("x", 3 * FillLen + 1)}

\* the question types a caller may pass: the four known ones and others
QuestionTypes == evaluators \cup {"unknown_type", "Factual", ""}

(***************************************************************************)
(* The state machine: an answer is written, then evaluated under a question type.   *)
(***************************************************************************)
\* no answer is written and no call of evaluate is made yet
NoEvaluation ==
    /\ answer = ""
    /\ phrases = 0
    /\ question_type = "none"
    /\ outcome = "none"
    /\ result = NoResult
    /\ baseline = NoBaseline

\* no call of chunk_text is made
NoChunking ==
    /\ text = ""
    /\ chunk_size = 0
    /\ overlap = 0
    /\ words = <<>>
    /\ chunk_i = 0
    /\ chunks = <<>>
    /\ chunk_pc = "idle"

\* no experiment is run
NoExperiment ==
    /\ exp_pc = "idle"
    /\ questions_dict = <<>>
    /\ model_i = 0
    /\ qtype_i = 0
    /\ question_i = 0
    /\ type_results = <<>>
    /\ model_results = <<>>
    /\ all_results = <<>>
    /\ instruction = "none"
    /\ queried = {}
    /\ failures = 0

Init == NoEvaluation /\ NoChunking /\ NoExperiment

\* the generation step appends a phrase to the answer
Write(w) ==
    /\ outcome = "none"
    /\ baseline = NoBaseline
    /\ phrases < MaxPhrases
    /\ answer' = answer \o w
    /\ phrases' = phrases + 1
    /\ UNCHANGED <<question_type, outcome, result, baseline>>
    /\ UNCHANGED <<chunkVars, expVars>>

\* a call Evaluator.evaluate(answer, qt)
Evaluate(qt) ==
    /\ outcome = "none"
    /\ LET call == evaluate(answer, qt)
       IN /\ question_type' = qt
          /\ outcome' = call.outcome
          /\ result' = call.result
    /\ UNCHANGED <<answer, phrases, baseline>>
    /\ UNCHANGED <<chunkVars, expVars>>

Next ==
    \/ \E w \in Vocabulary : Write(w)
    \/ \E qt \in QuestionTypes : Evaluate(qt)

Spec == Init /\ [][Next]_vars

(***************************************************************************)
(* Adding a URL to a factual answer: an answer is written from phrases,    *)
(* scored as factual, a URL is added to it somewhere between its words,    *)
(* and the new answer is scored as factual again; baseline remembers the   *)
(* first answer and its result.                                            *)
(***************************************************************************)
BasePhrases ==
    {"Kent Ridge",
     "Room 12 ",
     "maybe ",
     "at www.nus.edu.sg ",
     Repeat("x", 3 * FillLen - 10),
     Repeat("x", 3 * FillLen)}

\* well-formed URLs that carry a URL marker: a plain one, one with a digit,
\* one whose host name contains a vague term, and a long one
Urls ==
    {"http://nus.edu.sg",
     "www.nus.edu.sg/map2",
     "https://mightymaps.sg",
     "http://nus.edu.sg/" \o Repeat("a", 3 * FillLen)}

\* the places a URL can be added: the two ends and after each whitespace
InsertPoints(a) == {0, Len(a)} \cup {p \in 1..Len(a) : CharAt(a, p) \in Whitespace}

\* a with the URL u added after its first p characters, set off from the
\* neighbouring words by whitespace
WithUrl(a, p, u) ==
    LET before == IF p = 0 THEN "" ELSE SubSeq(a, 1, p)
        after  == IF p = Len(a) THEN "" ELSE SubSeq(a, p + 1, Len(a))
    IN (IF before # "" /\ CharAt(a, p) \notin Whitespace THEN before \o " " ELSE before)
       \o u
       \o (IF after # "" /\ CharAt(a, p + 1) \notin Whitespace THEN " " \o after ELSE after)

\* a URL is added to a scored factual answer that has no URL marker
AddUrl(u, p) ==
    /\ outcome = "returned"
    /\ question_type = "factual"
    /\ baseline = NoBaseline
    /\ p \in InsertPoints(answer)
    /\ ~has_url(strip(lower(answer)))
    /\ baseline' = [answer |-> answer, result |-> result]
    /\ answer' = WithUrl(answer, p, u)
    /\ question_type' = "none"
    /\ outcome' = "none"
    /\ result' = NoResult
    /\ UNCHANGED phrases
    /\ UNCHANGED <<chunkVars, expVars>>

NextUrl ==
    \/ \E w \in BasePhrases : Write(w)
    \/ Evaluate("factual")
    \/ \E u \in Urls : \E p \in InsertPoints(answer) : AddUrl(u, p)

SpecUrl == Init /\ [][NextUrl]_vars

(***************************************************************************)
(* chunk_text (build_vector_db.py): the text is split into words and each  *)
(* pass of the loop over range(0, len(words), chunk_size - overlap) joins  *)
(* a window of words into a chunk.                                         *)
(***************************************************************************)
\* the positions of s where a word starts: a non-whitespace character at the
\* start of s or after a whitespace character
WordStarts(s) ==
    {i \in 1..Len(s) :
        CharAt(s, i) \notin Whitespace /\ (i = 1 \/ CharAt(s, i - 1) \in Whitespace)}

\* the word of s that starts at i: up to the next whitespace or the end
WordFrom(s, i) ==
    LET stop == CHOOSE j \in i..Len(s) :
                    /\ j = Len(s) \/ CharAt(s, j + 1) \in Whitespace
                    /\ \A k \in i..j : CharAt(s, k) \notin Whitespace
    IN SubSeq(s, i, stop)

\* the k-th smallest element of a set of numbers
RECURSIVE Nth(_, _)
Nth(S, k) == IF k = 1 THEN Min(S) ELSE Nth(S \ {Min(S)}, k - 1)

\* str.split(): the words of s, in order
split(s) ==
    [k \in 1..Cardinality(WordStarts(s)) |-> WordFrom(s, Nth(WordStarts(s), k))]

\* ' '.join(ws)
RECURSIVE join(_)
join(ws) ==
    IF ws = <<>> THEN ""
    ELSE IF Len(ws) = 1 THEN ws[1]
    ELSE ws[1] \o " " \o join(Tail(ws))

\* words[i:i + n], Python's slice (i counts from 0, the end is clipped)
Slice(ws, i, n) ==
    SubSeq(ws, i + 1, IF i + n < Len(ws) THEN i + n ELSE Len(ws))

\* a plausible slip: the overlap left out of the step
range_step_without_overlap(size, lap) == size

\* the step of the loop's range
range_step(size, lap) == size - lap

\* the call starts: the words are split off and the range is built;
\* range() raises ValueError for a step of 0
ChunkStart ==
    /\ chunk_pc = "call"
    /\ words' = split(text)
    /\ chunks' = <<>>
    /\ chunk_i' = 0
    /\ chunk_pc' = IF range_step(chunk_size, overlap) = 0 THEN "ValueError" ELSE "loop"
    /\ UNCHANGED <<text, chunk_size, overlap>>
    /\ UNCHANGED <<evalVars, expVars>>

\* one pass of the loop body for the next i of the range
ChunkStep ==
    /\ chunk_pc = "loop"
    /\ range_step(chunk_size, overlap) > 0
    /\ chunk_i < Len(words)
    /\ LET chunk == join(Slice(words, chunk_i, chunk_size))
       IN chunks' = IF strip(chunk) # "" THEN Append(chunks, chunk) ELSE chunks
    /\ chunk_i' = chunk_i + range_step(chunk_size, overlap)
    /\ UNCHANGED <<text, chunk_size, overlap, words, chunk_pc>>
    /\ UNCHANGED <<evalVars, expVars>>

\* the range is exhausted (at once when the step is negative): chunks is
\* returned
ChunkReturn ==
    /\ chunk_pc = "loop"
    /\ \/ range_step(chunk_size, overlap) > 0 /\ chunk_i >= Len(words)
       \/ range_step(chunk_size, overlap) < 0
    /\ chunk_pc' = "done"
    /\ UNCHANGED <<text, chunk_size, overlap, words, chunk_i, chunks>>
    /\ UNCHANGED <<evalVars, expVars>>

MaxWords == 5

MaxChunkSize == 3

Sentence == <<"NUS", "has", "seven", "libraries", "on", "its", "Kent", "Ridge", "campus">>

Separators == <<" ", "\n", "  ", "\t ">>

\* the first n words of the sentence, single spaces between them
RECURSIVE PlainText(_)
PlainText(n) ==
    IF n = 0 THEN ""
    ELSE IF n = 1 THEN Sentence[1]
    ELSE PlainText(n - 1) \o " " \o Sentence[n]

\* the first n words of the sentence, each after some whitespace, and a
\* trailing newline
RECURSIVE MessyText(_)
MessyText(n) ==
    IF n = 0 THEN "\n"
    ELSE SubSeq(MessyText(n - 1), 1, Len(MessyText(n - 1)) - 1)
         \o Separators[(n % Len(Separators)) + 1] \o Sentence[n] \o "\n"

Texts == {PlainText(n) : n \in 0..MaxWords} \cup {MessyText(n) : n \in 0..MaxWords}

InitChunk ==
    /\ NoEvaluation
    /\ NoExperiment
    /\ text \in Texts
    /\ chunk_size \in 1..MaxChunkSize
    /\ overlap \in 0..MaxChunkSize
    /\ words = <<>>
    /\ chunk_i = 0
    /\ chunks = <<>>
    /\ chunk_pc = "call"

NextChunk == ChunkStart \/ ChunkStep \/ ChunkReturn

\* the call runs on: no step of it is postponed for ever
SpecChunk == InitChunk /\ [][NextChunk]_vars /\ WF_vars(NextChunk)

(***************************************************************************)
(* run_experiment.py: main loads the questions, builds the RAG system and  *)
(* runs every model over every category; rag_system.py: a query retrieves  *)
(* documents, builds the prompt and asks the model.                        *)
(***************************************************************************)
\* a plausible slip: a category name misspelled in the list
question_types_misspelled == <<"factual", "procedural", "comparative", "recommendations">>

\* the categories load_questions looks for, in order
question_types == <<"factual", "procedural", "comparative", "recommendation">>

\* the models main tests, in order
models == <<"qwen2.5:3b", "qwen2.5:1.5b", "llama3.2:3b", "phi3:mini", "deepseek-r1:1.5b">>

\* the keys of a sequence of names
Names(seq) == {seq[k] : k \in 1..Len(seq)}

\* [line.strip() for line in f if line.strip()]
StripLine(line) == strip(line)

NonBlank(line) == strip(line) # ""

RECURSIVE StripAll(_)
StripAll(lines) ==
    IF lines = <<>> THEN <<>> ELSE <<StripLine(Head(lines))>> \o StripAll(Tail(lines))

read_questions(lines) == StripAll(SelectSeq(lines, NonBlank))

\* load_questions once the directory exists: a list per category, empty
\* when the file is missing
load_questions(files) ==
    [qtype \in Names(question_types) |->
        IF files[qtype].exists THEN read_questions(files[qtype].lines) ELSE <<>>]

\* build_prompt's instruction for a category, with its fallback
type_instructions ==
    [factual |-> "Answer with a short, precise response. Include specific details like numbers, dates, or locations.",
     procedural |-> "Provide a step-by-step guide. Number each step clearly.",
     comparative |-> "Compare the options mentioned. Discuss similarities and differences across multiple dimensions.",
     recommendation |-> "Give personalized recommendations based on the constraints mentioned. Explain your reasoning."]

GenericInstruction == "Answer the question based on the context."

build_prompt_instruction(qtype) ==
    IF qtype \in DOMAIN type_instructions THEN type_instructions[qtype]
    ELSE GenericInstruction

\* the documents the index returns for a query
retrieve(query) ==
    <<[content |-> "NUS has seven libraries on its Kent Ridge campus"],
      [content |-> "Halls differ in cost and distance"]>>

\* OllamaClient.generate: the reply on HTTP 200, an error otherwise
generate(ok, reply) ==
    IF ok THEN [success |-> TRUE, response |-> reply]
    ELSE [success |-> FALSE, error |-> "HTTP 500"]

\* RAGSystem.query: 'answer' is result.get('response', '')
query(question, qtype, ok, reply) ==
    LET generated == generate(ok, reply)
    IN [question       |-> question,
        question_type  |-> qtype,
        retrieved_docs |-> retrieve(question),
        answer         |-> IF "response" \in DOMAIN generated
                           THEN generated.response ELSE "",
        success        |-> generated.success]

\* a plausible slip: every reply is recorded, failed or not
query_succeeded_always(r) == TRUE

\* if result['success']
query_succeeded(r) == r.success

\* sum(r['evaluation']['total_score'] for r in type_results)
RECURSIVE sum_total_score(_)
sum_total_score(results) ==
    IF results = <<>> THEN 0
    ELSE Head(results).evaluation.total_score + sum_total_score(Tail(results))

\* round(avg_score, 3) for a sum of n scores, in thousandths: the nearest
\* thousandth; on a tie the float value of the mean decides, so both
\* neighbours are outcomes
rounded_averages(sum, n) ==
    {avg \in (sum \div n)..((sum \div n) + 1) :
        2 * (avg * n - sum) <= n /\ 2 * (sum - avg * n) <= n}

MaxQuestions == 2

MaxFailures == 1

QuestionPool ==
    [factual        |-> <<"Where is the Central Library?", "What is the NUS hotline?",
                          "When does the term start?", "Who runs the halls?">>,
     procedural     |-> <<"How do I register for a module?", "How do I borrow a book?",
                          "How do I apply for a hall?", "How do I print?">>,
     comparative    |-> <<"How do Hall A and Hall B differ?", "UTown or Kent Ridge?",
                          "Bus or walking?", "Canteen or cafe?">>,
     recommendation |-> <<"Which hall suits a tight budget?", "Which module should I take?",
                          "Where should I study?", "Which canteen is best?">>]

\* the questions a file of a category holds
QuestionsFor(qtype) ==
    IF qtype \in DOMAIN QuestionPool THEN QuestionPool[qtype] ELSE QuestionPool.factual

\* a question file: n questions, one per line, or with blank lines and
\* padding around them
FileLines(qtype, n, padded) ==
    IF padded
    THEN [k \in 1..(2 * n + 1) |->
            IF k % 2 = 1 THEN " \n"
            ELSE "  " \o QuestionsFor(qtype)[k \div 2] \o " \n"]
    ELSE [k \in 1..n |-> QuestionsFor(qtype)[k] \o "\n"]

FileShapes ==
    {[exists |-> FALSE, n |-> 0, padded |-> FALSE]}
    \cup {[exists |-> TRUE, n |-> n, padded |-> p] : n \in 0..MaxQuestions, p \in BOOLEAN}

RECURSIVE TotalQuestions(_, _)
TotalQuestions(shape, k) ==
    IF k > Len(question_types) THEN 0
    ELSE shape[question_types[k]].n + TotalQuestions(shape, k + 1)

\* the question directories tried: at most MaxQuestions questions in all
QuestionDirs ==
    {[qtype \in DOMAIN shape |->
        [exists |-> shape[qtype].exists,
         lines  |-> FileLines(qtype, shape[qtype].n, shape[qtype].padded)]] :
     shape \in {sh \in [Names(question_types) -> FileShapes] :
                   TotalQuestions(sh, 1) <= MaxQuestions}}

\* the replies of the models
Replies == <<StepsAnswer, OptionsAnswer, VagueAnswer, "">>

Reply(m, t, q) == Replies[((m + t + 2 * q) % Len(Replies)) + 1]

InitExp ==
    /\ NoEvaluation
    /\ NoChunking
    /\ exp_pc = "main"
    /\ questions_dict = <<>>
    /\ model_i = 0
    /\ qtype_i = 0
    /\ question_i = 0
    /\ type_results = <<>>
    /\ model_results = <<>>
    /\ all_results = <<>>
    /\ instruction = "none"
    /\ queried = {}
    /\ failures = 0

\* main calls load_questions: None when the directory is missing (main
\* returns), else the dictionary of the four categories
LoadQuestions ==
    /\ exp_pc = "main"
    /\ \/ /\ exp_pc' = "returned"
          /\ UNCHANGED questions_dict
       \/ \E files \in QuestionDirs :
             /\ questions_dict' = load_questions(files)
             /\ exp_pc' = "init_rag"
    /\ UNCHANGED <<model_i, qtype_i, question_i, type_results, model_results,
                   all_results, instruction, queried, failures>>
    /\ UNCHANGED <<evalVars, chunkVars>>

\* main builds the RAG system: an exception makes main return; else
\* run_experiment starts with an empty all_results
InitRAG ==
    /\ exp_pc = "init_rag"
    /\ \/ /\ exp_pc' = "returned"
          /\ UNCHANGED <<model_i, all_results>>
       \/ /\ exp_pc' = "for_model"
          /\ model_i' = 1
          /\ all_results' = <<>>
    /\ UNCHANGED <<questions_dict, qtype_i, question_i, type_results, model_results,
                   instruction, queried, failures>>
    /\ UNCHANGED <<evalVars, chunkVars>>

\* for model in models: the next model starts with empty model_results;
\* after the last one the results are returned
ForModel ==
    /\ exp_pc = "for_model"
    /\ IF model_i > Len(models)
       THEN /\ exp_pc' = "done"
            /\ UNCHANGED <<model_results, qtype_i>>
       ELSE /\ exp_pc' = "for_qtype"
            /\ model_results' = <<>>
            /\ qtype_i' = 1
    /\ UNCHANGED <<questions_dict, model_i, question_i, type_results, all_results,
                   instruction, queried, failures>>
    /\ UNCHANGED <<evalVars, chunkVars>>

\* for qtype, questions in questions_dict.items(): a category without
\* questions is skipped; after the last one the model's results are stored
ForQtype ==
    /\ exp_pc = "for_qtype"
    /\ IF qtype_i > Len(question_types)
       THEN /\ all_results' = all_results @@ (models[model_i] :> model_results)
            /\ model_i' = model_i + 1
            /\ exp_pc' = "for_model"
            /\ UNCHANGED <<qtype_i, question_i, type_results>>
       ELSE IF questions_dict[question_types[qtype_i]] = <<>>
       THEN /\ qtype_i' = qtype_i + 1
            /\ UNCHANGED <<exp_pc, model_i, question_i, type_results, all_results>>
       ELSE /\ type_results' = <<>>
            /\ question_i' = 1
            /\ exp_pc' = "for_question"
            /\ UNCHANGED <<qtype_i, model_i, all_results>>
    /\ UNCHANGED <<questions_dict, model_results, instruction, queried, failures>>
    /\ UNCHANGED <<evalVars, chunkVars>>

\* one pass of the loop over the questions: the query, and for a successful
\* one the evaluation and the record
Query(ok) ==
    /\ exp_pc = "for_question"
    /\ question_i <= Len(questions_dict[question_types[qtype_i]])
    /\ ok \/ failures < MaxFailures
    /\ LET qtype    == question_types[qtype_i]
           question == questions_dict[qtype][question_i]
           r        == query(question, qtype, ok, Reply(model_i, qtype_i, question_i))
           call     == evaluate(r.answer, qtype)
       IN /\ instruction' = build_prompt_instruction(qtype)
          /\ queried' = queried \cup {[model |-> models[model_i], qtype |-> qtype,
                                       question |-> question, success |-> ok]}
          /\ failures' = IF ok THEN failures ELSE failures + 1
          /\ IF query_succeeded(r)
             THEN /\ answer' = r.answer
                  /\ question_type' = qtype
                  /\ outcome' = call.outcome
                  /\ result' = call.result
                  /\ IF call.outcome = "ValueError"
                     THEN /\ exp_pc' = "raised"
                          /\ UNCHANGED <<type_results, question_i>>
                     ELSE /\ type_results' =
                                Append(type_results,
                                       [question             |-> question,
                                        answer               |-> r.answer,
                                        retrieved_docs_count |-> Len(r.retrieved_docs),
                                        evaluation           |-> call.result])
                          /\ question_i' = question_i + 1
                          /\ UNCHANGED exp_pc
             ELSE /\ question_i' = question_i + 1
                  /\ UNCHANGED <<answer, question_type, outcome, result, type_results, exp_pc>>
    /\ UNCHANGED <<phrases, baseline>>
    /\ UNCHANGED <<questions_dict, model_i, qtype_i, model_results, all_results>>
    /\ UNCHANGED chunkVars

\* the index raises inside retrieve: nothing catches it and the run ends
QueryRaises ==
    /\ exp_pc = "for_question"
    /\ question_i <= Len(questions_dict[question_types[qtype_i]])
    /\ exp_pc' = "raised"
    /\ UNCHANGED <<questions_dict, model_i, qtype_i, question_i, type_results,
                   model_results, all_results, instruction, queried, failures>>
    /\ UNCHANGED <<evalVars, chunkVars>>

\* after the last question: the category's entry, if anything was recorded
Aggregate ==
    /\ exp_pc = "for_question"
    /\ question_i > Len(questions_dict[question_types[qtype_i]])
    /\ IF type_results # <<>>
       THEN \E avg \in rounded_averages(sum_total_score(type_results), Len(type_results)) :
               model_results' = model_results @@
                   (question_types[qtype_i] :>
                       [questions_count |-> Len(type_results),
                        average_score   |-> avg,
                        details         |-> type_results])
       ELSE UNCHANGED model_results
    /\ qtype_i' = qtype_i + 1
    /\ exp_pc' = "for_qtype"
    /\ UNCHANGED <<questions_dict, model_i, question_i, type_results, all_results,
                   instruction, queried, failures>>
    /\ UNCHANGED <<evalVars, chunkVars>>

NextExp ==
    \/ LoadQuestions
    \/ InitRAG
    \/ ForModel
    \/ ForQtype
    \/ \E ok \in BOOLEAN : Query(ok)
    \/ QueryRaises
    \/ Aggregate

SpecExp == InitExp /\ [][NextExp]_vars

(***************************************************************************)
(* Properties of the dispatcher and of the returned scores.                *)
(***************************************************************************)
Returned(qt) == outcome = "returned" /\ question_type = qt

\* the names of the sub-scores of a result: its *_score keys but total_score
SubScoreNames(r) ==
    {k \in DOMAIN r : /\ Len(k) > 6
                      /\ SubSeq(k, Len(k) - 5, Len(k)) = "_score"
                      /\ k # "total_score"}

\* C1: a call whose category is none of the four known ones raises the
\* unknown-category error and returns no result, whatever the answer is.
C1_UnknownCategoryRaises ==
    (outcome # "none"
        /\ question_type \notin {"factual", "procedural", "comparative", "recommendation"})
    => (outcome = "ValueError" /\ result = NoResult)

C1_Witness ==
    /\ question_type = "unknown_type"
    /\ outcome = "ValueError"
    /\ answer = StepsAnswer

\* C2: the total_score of every returned result lies in [0.0, 1.0].
C2_TotalInUnitInterval ==
    outcome = "returned" => (result.total_score >= 0 /\ result.total_score <= 1000)

\* the factual answer that earns every point is scored exactly 1.0
C2_Witness ==
    /\ Returned("factual")
    /\ answer = "Call 6516 at Kent Ridge, see WWW.nus.edu.sg "
    /\ result.total_score = 1000

\* C3 (as stated): the empty answer scored as factual gets length_score 1.0,
\* specificity_score 0.0, clarity_score 1.0 and total_score 0.3.
C3_EmptyFactualTotalIsThreeTenths ==
    (Returned("factual") /\ answer = "")
    => /\ result.length_score = 1000
       /\ result.specificity_score = 0
       /\ result.clarity_score = 1000
       /\ result.total_score = 300

\* C3 (amended): the empty answer scored as factual gets length_score 1.0,
\* specificity_score 0.0, clarity_score 1.0 and total_score 0.6
\* (0.3 * 1.0 + 0.4 * 0.0 + 0.3 * 1.0).
C3_EmptyFactualTotalIsSixTenths ==
    (Returned("factual") /\ answer = "")
    => /\ result.length_score = 1000
       /\ result.specificity_score = 0
       /\ result.clarity_score = 1000
       /\ result.total_score = 600

C3_Witness == Returned("factual") /\ answer = "" /\ result.answer_length = 0

\* the count-based sub-scores of the empty answer are all 0
EmptyCountScoresAreZero ==
    /\ Returned("factual") => result.specificity_score = 0
    /\ Returned("procedural") =>
          (result.step_score = 0 /\ result.logic_score = 0 /\ result.action_score = 0)
    /\ Returned("comparative") =>
          (result.comparison_score = 0 /\ result.dimension_score = 0)
    /\ Returned("recommendation") =>
          /\ result.recommendation_score = 0
          /\ result.reasoning_score = 0
          /\ result.constraint_score = 0
          /\ result.diversity_score = 0

\* C4 (as stated): evaluating the empty answer under any of the four
\* categories does not raise, every count-based sub-score is 0 and every
\* length-based sub-score takes its lowest band (factual 0.5, comparative 0.4).
C4_EmptyAnswerAllMinimum ==
    (answer = "" /\ outcome # "none"
        /\ question_type \in {"factual", "procedural", "comparative", "recommendation"})
    => /\ outcome = "returned"
       /\ EmptyCountScoresAreZero
       /\ Returned("factual") => result.length_score = 500
       /\ Returned("comparative") => result.length_score = 400

\* C4 (amended): evaluating the empty answer under any of the four categories
\* does not raise and every count-based sub-score is 0; the comparative
\* length_score takes its lowest band 0.4 and structure_score its lowest
\* value 0.5, but the factual length_score takes its highest band 1.0 and the
\* factual clarity_score is 1.0.
C4_EmptyAnswerScores ==
    (answer = "" /\ outcome # "none"
        /\ question_type \in {"factual", "procedural", "comparative", "recommendation"})
    => /\ outcome = "returned"
       /\ EmptyCountScoresAreZero
       /\ Returned("factual") =>
             (result.length_score = 1000 /\ result.clarity_score = 1000)
       /\ Returned("comparative") =>
             (result.length_score = 400 /\ result.structure_score = 500)

C4_Witness ==
    /\ answer = ""
    /\ Returned("comparative")
    /\ result.length_score = 400
    /\ result.dimensions_found = 0

\* the lower-cased answer contains one of the five vague terms
ContainsVagueTerm(a) ==
    \/ Contains(lower(a), "maybe")
    \/ Contains(lower(a), "might")
    \/ Contains(lower(a), "possibly")
    \/ Contains(lower(a), "unclear")
    \/ Contains(lower(a), "i don't know")

\* C7: a factual answer whose lower-cased text contains a vague term gets
\* clarity_score 0.0 whatever else it contains, any other answer gets 1.0,
\* and the total_score of a vague answer is at most 0.7.
C7_VagueGate ==
    Returned("factual")
    => /\ result.clarity_score = (IF ContainsVagueTerm(answer) THEN 0 ELSE 1000)
       /\ ContainsVagueTerm(answer) => result.total_score <= 700
       /\ answer = VagueAnswer => result.clarity_score = 0

\* a vague answer (the term capitalised) with a number, a URL and a name
C7_Witness ==
    /\ Returned("factual")
    /\ answer = "Call 6516 at Kent Ridge, see WWW.nus.edu.sg " \o "Possibly "
    /\ result.specificity_score = 1000
    /\ result.clarity_score = 0
    /\ result.total_score = 700

\* the occurrences of the word w in s
Occurrences(s, w) == Cardinality({i \in 1..Len(s) : LitAt(s, i, w)})

\* the occurrences in s of a digit run followed by the character c (one per
\* run: its last digit)
NumberThen(s, c) ==
    Cardinality({i \in 1..Len(s) : CharAt(s, i) \in Digits /\ CharAt(s, i + 1) = c})

\* the occurrences in s of the word w followed by a digit
WordThenDigit(s, w) ==
    Cardinality({i \in 1..Len(s) : LitAt(s, i, w) /\ CharAt(s, i + Len(w)) \in Digits})

\* the step markers of an answer, pattern by pattern (no two sequence words
\* overlap in the answers written from the vocabulary)
StepMarkerOccurrences(a) ==
    NumberThen(lower(a), ".")
    + WordThenDigit(lower(a), "step ")
    + Occurrences(lower(a), "first") + Occurrences(lower(a), "second")
    + Occurrences(lower(a), "third") + Occurrences(lower(a), "then")
    + Occurrences(lower(a), "next") + Occurrences(lower(a), "finally")

\* min(n / target, 1.0), rounded to three decimals, for the targets 2 and 3
RoundedShare(n, target) ==
    IF n >= target THEN 1000
    ELSE IF n = 0 THEN 0
    ELSE IF target = 2 THEN 500
    ELSE IF n = 1 THEN 333 ELSE 667

\* C8: step_markers_found is the sum of the match counts of the three step
\* patterns on the lower-cased answer and step_score is
\* min(step_markers_found / 3, 1.0); the three-step example answer has
\* step_score 1.0.
C8_StepScore ==
    Returned("procedural")
    => /\ result.step_markers_found = StepMarkerOccurrences(answer)
       /\ result.step_score = RoundedShare(result.step_markers_found, 3)
       /\ answer = StepsAnswer =>
             (result.step_markers_found = 6 /\ result.step_score = 1000)

C8_Witness ==
    /\ Returned("procedural")
    /\ answer = StepsAnswer
    /\ result.step_score = 1000

\* the option markers of an answer: "option <digits>", "<digits>)" where the
\* digits are not those of an "option <digits>", and "alternatively"
OptionMarkerOccurrences(a) ==
    LET s == lower(a)
        n == Len(s)
    IN Cardinality({i \in 1..n : LitAt(s, i, "option ") /\ CharAt(s, i + 7) \in Digits})
       + Cardinality({i \in 1..n :
            /\ CharAt(s, i) \in Digits
            /\ CharAt(s, i + 1) = ")"
            /\ ~LitAt(s, RunStart(s, i, Digits) - 7, "option ")})
       + Occurrences(s, "alternatively")

\* C9: the example answer scored as recommendation and as comparative gets
\* the two different sub-score name sets, diversity_score 1.0 in the former
\* and dimension_score 1.0 in the latter; in general diversity_score is
\* min(option_marker_count / 2, 1.0) and dimension_score is
\* min(dimension_count / 2, 1.0).
C9_CategorySpecificScores ==
    /\ Returned("recommendation") =>
          /\ SubScoreNames(result) = {"recommendation_score", "reasoning_score",
                                      "constraint_score", "diversity_score"}
          /\ result.diversity_score = RoundedShare(OptionMarkerOccurrences(answer), 2)
          /\ answer = OptionsAnswer => result.diversity_score = 1000
    /\ Returned("comparative") =>
          /\ SubScoreNames(result) = {"comparison_score", "dimension_score",
                                      "structure_score", "length_score"}
          /\ result.dimension_score = RoundedShare(result.dimensions_found, 2)
          /\ answer = OptionsAnswer =>
                (result.dimensions_found = 3 /\ result.dimension_score = 1000)

C9_Witness ==
    /\ answer = OptionsAnswer
    /\ \/ Returned("recommendation") /\ result.diversity_score = 1000
       \/ Returned("comparative") /\ result.dimension_score = 1000

\* the sub-score names of each category
SubScoreNamesOf(category) ==
    CASE category = "factual" ->
            {"length_score", "specificity_score", "clarity_score"}
      [] category = "procedural" ->
            {"step_score", "logic_score", "action_score"}
      [] category = "comparative" ->
            {"comparison_score", "dimension_score", "structure_score", "length_score"}
      [] category = "recommendation" ->
            {"recommendation_score", "reasoning_score", "constraint_score",
             "diversity_score"}

\* C10: every named sub-score of every returned result lies in [0.0, 1.0],
\* however many markers or words the answer contains.
C10_SubScoresInUnitInterval ==
    outcome = "returned"
    => /\ SubScoreNames(result) = SubScoreNamesOf(result.category)
       /\ \A k \in SubScoreNamesOf(result.category) : result[k] >= 0 /\ result[k] <= 1000

\* an answer with twice the markers the step score asks for
C10_Witness ==
    /\ Returned("procedural")
    /\ result.step_markers_found >= 6
    /\ result.step_score = 1000

\* the factual answer has been scored before and after a URL was added to it
Rescored == Returned("factual") /\ baseline # NoBaseline

\* C5 (as stated): adding a well-formed URL to a factual answer that has no
\* URL marker lowers neither specificity_score nor total_score, also when the
\* added characters move the length across a band boundary.
C5_AddingUrlNeverLowersScores ==
    Rescored
    => /\ result.specificity_score >= baseline.result.specificity_score
       /\ result.total_score >= baseline.result.total_score

\* the URL leaves a specific name of the answer in place, brings in no vague
\* term, and does not take the length from the first band to the last
UrlKeepsName == has_specific_name(baseline.answer) => has_specific_name(answer)

UrlKeepsClarity == result.clarity_score = baseline.result.clarity_score

UrlSkipsNoBand ==
    ~(baseline.result.answer_length <= 150 /\ result.answer_length > 300)

\* C5 (amended): adding a well-formed URL (one with 'http' or 'www.') to a
\* factual answer that has no URL marker never lowers specificity_score, and
\* never lowers total_score when the URL does not split a specific name of
\* the answer, brings in no vague term and does not take the length from at
\* most 150 to more than 300 characters; this includes the additions that
\* move the length across one band boundary (150 or 300).
C5_AddingUrlUnderConditions ==
    Rescored
    => /\ result.specificity_score >= baseline.result.specificity_score
       /\ (UrlKeepsName /\ UrlKeepsClarity /\ UrlSkipsNoBand)
             => result.total_score >= baseline.result.total_score

\* a URL that moves a named answer across the 150-character boundary
C5_Witness ==
    /\ Rescored
    /\ UrlKeepsName /\ UrlKeepsClarity /\ UrlSkipsNoBand
    /\ has_specific_name(baseline.answer)
    /\ baseline.result.length_score = 1000
    /\ result.length_score = 800
    /\ result.total_score > baseline.result.total_score

\* the answer has a newline followed by optional whitespace and a bullet
\* character, or a digit followed by a full stop
LooksStructured(a) ==
    \/ \E i \in 1..Len(a) : \E j \in (i + 1)..Len(a) :
          /\ CharAt(a, i) = "\n"
          /\ CharAt(a, j) \in {"-", "*"}
          /\ \A k \in (i + 1)..(j - 1) : CharAt(a, k) \in {" ", "\n", "\t"}
    \/ \E i \in 1..Len(a) : CharAt(a, i) \in Digits /\ CharAt(a, i + 1) = "."

\* C11: the comparative structure_score is 1.0 for an answer with structure
\* and 0.5 for any other answer, never 0, and the comparative total_score is
\* at least 0.18 (0.2 * 0.5 + 0.2 * 0.4), hence strictly positive.
C11_StructureNeverZero ==
    Returned("comparative")
    => /\ result.structure_score = (IF LooksStructured(answer) THEN 1000 ELSE 500)
       /\ result.total_score >= 180
       /\ result.total_score > 0

\* the empty answer: no structure, shortest band, no comparison word or
\* dimension, and the least total a comparative answer can get
C11_Witness ==
    /\ Returned("comparative")
    /\ answer = ""
    /\ result.structure_score = 500
    /\ result.total_score = 180

\* the 0-based start positions the claim names: the multiples of
\* chunk_size - overlap below the word count
ChunkStartsExpected ==
    {p \in 0..(Len(words) - 1) : p % (chunk_size - overlap) = 0}

\* the 0-based positions of the words of the c-th chunk
Window(c) ==
    LET start == (c - 1) * (chunk_size - overlap)
    IN {p \in start..(start + chunk_size - 1) : p < Len(words)}

\* what chunk_text has returned is what the claim describes
ChunksAsClaimed ==
    /\ words = SubSeq(Sentence, 1, Len(words))
    /\ Len(chunks) = Cardinality(ChunkStartsExpected)
    /\ \A c \in 1..Len(chunks) :
          /\ Len(split(chunks[c])) <= chunk_size
          /\ Len(split(chunks[c])) = Cardinality(Window(c))
          /\ \A k \in 1..Len(split(chunks[c])) :
                split(chunks[c])[k] = Sentence[(c - 1) * (chunk_size - overlap) + k]
    /\ \A p \in 0..(Len(words) - 1) : \E c \in 1..Len(chunks) : p \in Window(c)
    /\ \A c \in 1..(Len(chunks) - 1) :
          (Len(split(chunks[c])) = chunk_size /\ Len(split(chunks[c + 1])) = chunk_size)
          => /\ Cardinality(Window(c) \cap Window(c + 1)) = overlap
             /\ SubSeq(split(chunks[c]), chunk_size - overlap + 1, chunk_size)
                = SubSeq(split(chunks[c + 1]), 1, overlap)
    /\ Len(words) = 0 => chunks = <<>>

\* C13: for chunk_size > overlap >= 0, chunk_text terminates and returns the
\* contiguous word windows of at most chunk_size words that start at the
\* multiples of chunk_size - overlap below the word count; every word is in
\* some chunk, consecutive full-size chunks share exactly overlap words, and
\* a text without words gives no chunks.
C13_ChunkTextWindows ==
    /\ (chunk_pc = "call" /\ chunk_size > overlap) ~> (chunk_pc = "done")
    /\ []((chunk_pc = "done" /\ chunk_size > overlap) => ChunksAsClaimed)

\* a text of several words cut into overlapping full-size chunks
C13_Witness ==
    /\ chunk_pc = "done"
    /\ chunk_size = 3 /\ overlap = 1
    /\ Len(words) = 5
    /\ Len(chunks) = 3
    /\ chunks[2] = "seven libraries on"

\* the questions of a list a model's query answered successfully, in order
Successes(m, qtype, questions) ==
    LET answered(q) == [model |-> m, qtype |-> qtype, question |-> q, success |-> TRUE] \in queried
    IN SelectSeq(questions, answered)

\* the questions of a list a model was asked
Asked(m, qtype, questions) ==
    LET asked(q) == \E r \in queried : r.model = m /\ r.qtype = qtype /\ r.question = q
    IN SelectSeq(questions, asked)

\* the list of records holds exactly these questions, in order, each with
\* the evaluation of its answer in the category
RecordsOf(records, questions, qtype) ==
    /\ Len(records) = Len(questions)
    /\ \A k \in 1..Len(records) :
          /\ records[k].question = questions[k]
          /\ records[k].evaluation.category = qtype
          /\ records[k].evaluation.total_score \in 0..1000

\* the entry of a category is the one the claim describes for these
\* successful questions
EntryOf(entry, questions, qtype) ==
    /\ RecordsOf(entry.details, questions, qtype)
    /\ entry.questions_count = Len(questions)
    /\ 2 * (entry.average_score * Len(questions) - sum_total_score(entry.details))
          <= Len(questions)
    /\ 2 * (sum_total_score(entry.details) - entry.average_score * Len(questions))
          <= Len(questions)
    /\ entry.average_score \in 0..1000

\* the categories of a model's results are those with a successful query,
\* each with its entry
ResultsOf(results, m) ==
    /\ DOMAIN results \subseteq DOMAIN questions_dict
    /\ \A qtype \in DOMAIN questions_dict :
          IF Successes(m, qtype, questions_dict[qtype]) = <<>>
          THEN qtype \notin DOMAIN results
          ELSE /\ qtype \in DOMAIN results
               /\ EntryOf(results[qtype], Successes(m, qtype, questions_dict[qtype]), qtype)

\* C12: a model's results hold, per category, exactly the successfully
\* answered questions in question order, with questions_count their number
\* and average_score the mean of their total_score to three decimals, in
\* [0,1]; a category with no questions or no success has no entry.  While a
\* category is under way type_results holds the successes so far.
C12_RecordedIffSuccess ==
    /\ \A m \in DOMAIN all_results :
          /\ ResultsOf(all_results[m], m)
          /\ \A qtype \in DOMAIN questions_dict :
                Asked(m, qtype, questions_dict[qtype]) = questions_dict[qtype]
    /\ exp_pc = "for_question"
       => LET qtype == question_types[qtype_i]
              sofar == SubSeq(questions_dict[qtype], 1, question_i - 1)
          IN /\ RecordsOf(type_results, Successes(models[model_i], qtype, sofar), qtype)
             /\ Asked(models[model_i], qtype, questions_dict[qtype]) = sofar

\* a finished run in which a model failed the first of two questions of a
\* category: one record, for the second question, and a count of 1
C12_Witness ==
    /\ exp_pc = "done"
    /\ \E m \in DOMAIN all_results : \E qtype \in DOMAIN all_results[m] :
          /\ Len(questions_dict[qtype]) = 2
          /\ all_results[m][qtype].questions_count = 1
          /\ all_results[m][qtype].details[1].question = questions_dict[qtype][2]
          /\ \E other \in DOMAIN questions_dict :
                questions_dict[other] = <<>> /\ other \notin DOMAIN all_results[m]

\* C14: in a run started from main the dictionary's keys are among the four
\* categories, every category handed to evaluate and to build_prompt is one
\* of its keys, the unknown-category error never occurs and the generic
\* instruction is never used, although build_prompt would fall back to it
\* for any other category.
C14_CategoriesFromMainAreKnown ==
    /\ DOMAIN questions_dict \subseteq evaluators
    /\ question_type # "none" => question_type \in DOMAIN questions_dict
    /\ \A r \in queried : r.qtype \in DOMAIN questions_dict
    /\ outcome # "ValueError"
    /\ instruction # GenericInstruction
    /\ instruction # "none"
       => \E qtype \in DOMAIN type_instructions : instruction = type_instructions[qtype]
    /\ build_prompt_instruction("unknown_type") = GenericInstruction

\* a run that has evaluated a recommendation answer
C14_Witness ==
    /\ exp_pc = "done"
    /\ outcome = "returned"
    /\ question_type = "recommendation"
    /\ instruction = type_instructions.recommendation
    /\ \E r \in queried : r.qtype = "factual" /\ r.success

====
